---- MODULE Spec2Model ----
(***************************************************************************)
(* SeuBank ledger: the user, account and transaction collections of        *)
(* backend/server.py, the three balance-changing request handlers          *)
(* (deposit_money, withdraw_money, transfer_money), the reads, registration *)
(* and the admin's routes.  Every handler is an async coroutine; each      *)
(* "await db...." is a suspension point, so a handler is one atomic step   *)
(* per store call, and the steps of different requests interleave freely.  *)
(* The code between two store calls touches only the handler's locals and  *)
(* belongs to the step of the call before it.                              *)
(*                                                                         *)
(* Amounts and balances are integers (minor units); ids are small          *)
(* naturals; a timestamp is the reading of a clock that advances with      *)
(* every balance write; the description text and the JWT plumbing are      *)
(* left out.                                                               *)
(*                                                                         *)
(*   Spec       any interleaving of the balance handlers                   *)
(*   SpecSeq    the same handlers, one request at a time                   *)
(*   SpecW      a batch of equal withdrawals racing on one account         *)
(*   SpecD      the balance handlers and delete_user, interleaved          *)
(*   SpecR      the balance handlers and get_account, interleaved          *)
(*   SpecH      the balance handlers and get_transactions, one at a time   *)
(*   SpecS      a get_admin_stats call with the balance handlers beside it *)
(*   SpecF      one request at a time, with store failures and crashes     *)
(*   SpecRetry  one request at a time, with store failures and retries     *)
(*   SpecI      one request at a time, over accounts active and inactive   *)
(*   SpecReg    register, create_user_admin and update_user, interleaved   *)
(*   SpecT      a set of concurrent requests under fair scheduling         *)
(***************************************************************************)
EXTENDS Integers, Sequences, FiniteSets, TLC

\* ---- bounds ------------------------------------------------------------
NumProcs == 2        \* requests that may be in flight together
MaxOps == 2          \* requests ever started

Procs == 1..NumProcs
Users == {1, 2}              \* registered principals
AccountIds == {1, 2}         \* their accounts: account a belongs to user a
Amounts == {0 - 1, 0, 1, 2}  \* request amounts: negative, zero, positive

\* ---- program constants -------------------------------------------------
NoAccount == 0       \* Optional[str] = None
DefaultBalance == 0  \* Account.balance default

DEPOSIT == "deposit"
WITHDRAWAL == "withdrawal"
TRANSFER == "transfer"
TransactionType == {DEPOSIT, WITHDRAWAL, TRANSFER}

\* HTTP outcomes of the handlers (status code and detail)
Ok == "200"
InvalidType == "400 Invalid transaction type"
AccountNotFound == "404 Account not found"
FromNotFound == "404 From account not found"
ToNotFound == "404 To account not found"
InsufficientBalance == "400 Insufficient balance"
UserNotFound == "404 User not found"
CannotDeleteAdmin == "400 Cannot delete admin users"
EmailTaken == "400 Email already registered"
Forbidden == "403 Admin access required"
StoreError == "500 Internal Server Error"
Crashed == "no response"
NoResult == "none"

\* UserRole; the default admin is created at startup
ADMIN == "admin"
USER == "user"
UserRole == {USER, ADMIN}
AdminUser == 3

VARIABLES
    users,         \* db.users: id -> [email, role, is_active]
    accounts,      \* db.accounts: id -> [user_id, balance, is_active]
    transactions,  \* db.transactions, in insertion order
    pc,            \* per request slot: where its coroutine is suspended
    req,           \* per request slot: the request body and principal
    local,         \* per request slot: the handler's local variables
    pre,           \* per request slot: the store as it was when the call began
    last,          \* the response the latest step returned, if it returned one
    nops,          \* requests started so far
    clock,         \* the time: it advances with every balance write
    applied,       \* history: when the balance writes of each record happened
    seen           \* history: the states the store went through during a
                   \* get_admin_stats call

vars == <<users, accounts, transactions, pc, req, local, pre, last, nops,
          clock, applied, seen>>

\* ---- records -----------------------------------------------------------
User(email, role) == [email |-> email, role |-> role, is_active |-> TRUE]

Account(user_id) ==
    [user_id |-> user_id, balance |-> DefaultBalance, is_active |-> TRUE]

\* timestamp: datetime.utcnow() when the object is constructed
Transaction(from_id, to_id, amount, type, user_id, now) ==
    [from_account_id |-> from_id, to_account_id |-> to_id, amount |-> amount,
     transaction_type |-> type, user_id |-> user_id, timestamp |-> now]

NoReq ==
    [op |-> "none", user |-> 0, from_account_id |-> NoAccount,
     to_account_id |-> NoAccount, amount |-> 0, transaction_type |-> "none"]

\* from_written is not a local of the code: the time at which the transfer
\* wrote the from-account's balance, kept for the history in applied
NoLocal ==
    [account_balance |-> 0, from_balance |-> 0, to_balance |-> 0,
     new_balance |-> 0, new_to_balance |-> 0, timestamp |-> 0,
     from_written |-> 0]

\* the record of timestamp ts wrote the balance of account a at time at
Written(ts, a, at) == [timestamp |-> ts, account |-> a, at |-> at]

EmptyAccounts == [a \in {} |-> Account(0)]

NoPre == [accounts |-> EmptyAccounts, ntx |-> 0]

NoLast == [req |-> NoReq, result |-> NoResult, new_balance |-> 0, pre |-> NoPre]

\* ---- store primitives --------------------------------------------------
\* db.accounts.find_one({"id": id, "user_id": user_id})
FindOwned_anyowner(accs, id, user_id) == id \in DOMAIN accs

FindOwned(accs, id, user_id) ==
    id \in DOMAIN accs /\ accs[id].user_id = user_id

\* db.accounts.find_one({"id": id})
FindById(accs, id) == id \in DOMAIN accs

\* db.accounts.update_one({"id": id}, {"$set": {"balance": bal}})
UpdateBalance_deactivating(accs, id, bal) ==
    IF id \in DOMAIN accs
      THEN [accs EXCEPT ![id].balance = bal, ![id].is_active = FALSE]
      ELSE accs

UpdateBalance(accs, id, bal) ==
    IF id \in DOMAIN accs THEN [accs EXCEPT ![id].balance = bal] ELSE accs

\* db.accounts.insert_one(account.dict())
InsertAccount(accs, id, user_id) == accs @@ (id :> Account(user_id))

\* db.accounts.delete_many({"user_id": user_id})
DeleteManyAccounts(accs, user_id) ==
    [a \in {b \in DOMAIN accs : accs[b].user_id # user_id} |-> accs[a]]

\* db.transactions.delete_many({"user_id": user_id})
DeleteManyTransactions(txs, user_id) ==
    LET Kept(t) == t.user_id # user_id IN SelectSeq(txs, Kept)

\* db.users.insert_one(user_obj.dict())
InsertUser(us, id, email, role) == us @@ (id :> User(email, role))

\* db.users.delete_one({"id": user_id})
DeleteOneUser(us, user_id) == [u \in DOMAIN us \ {user_id} |-> us[u]]

\* the role of the stored user u
Role(u) == users[u].role

\* register, for each principal in turn: the user record, with the
\* principal's number for its email, and the default checking account of a
\* regular user
RegisteredUsers(us) == [u \in us |-> User(u, USER)]

\* create_default_admin at startup
WithAdmin(us) == InsertUser(us, AdminUser, AdminUser, ADMIN)

Registered(us) == [a \in us |-> Account(a)]

\* the sum of the stored balances of the accounts in S
RECURSIVE SumBalances(_, _)
SumBalances(accs, S) ==
    IF S = {} THEN 0
    ELSE LET a == CHOOSE b \in S : TRUE
         IN  accs[a].balance + SumBalances(accs, S \ {a})

\* ---- the handlers' pure computations -----------------------------------
DepositNewBalance_overwrite(balance, amount) == amount

DepositNewBalance(balance, amount) == balance + amount

Insufficient_swapped(balance, amount) == amount < balance

Insufficient_never(balance, amount) == FALSE

Insufficient(balance, amount) == balance < amount

WithdrawNewBalance_credit(balance, amount) == balance + amount

WithdrawNewBalance(balance, amount) == balance - amount

TransferNewFrom(from_balance, amount) == from_balance - amount

TransferNewTo_debit(to_balance, amount) == to_balance - amount

TransferNewTo(to_balance, amount) == to_balance + amount

\* Both principals have registered; nothing else has happened yet.
Init ==
    /\ users = RegisteredUsers(Users)
    /\ accounts = Registered(Users)
    /\ transactions = <<>>
    /\ seen = {}
    /\ clock = 0
    /\ applied = {}
    /\ pc = [p \in Procs |-> "idle"]
    /\ req = [p \in Procs |-> NoReq]
    /\ local = [p \in Procs |-> NoLocal]
    /\ pre = [p \in Procs |-> NoPre]
    /\ last = NoLast
    /\ nops = 0

\* ---- requests ----------------------------------------------------------
DepositRequests ==
    [op : {DEPOSIT}, user : Users, from_account_id : {NoAccount},
     to_account_id : AccountIds \cup {NoAccount}, amount : Amounts,
     transaction_type : TransactionType]

WithdrawRequests ==
    [op : {WITHDRAWAL}, user : Users, from_account_id : {NoAccount},
     to_account_id : AccountIds \cup {NoAccount}, amount : Amounts,
     transaction_type : TransactionType]

TransferRequests ==
    [op : {TRANSFER}, user : Users, from_account_id : AccountIds \cup {NoAccount},
     to_account_id : AccountIds \cup {NoAccount}, amount : Amounts,
     transaction_type : {TRANSFER}]

\* get_current_user resolved the token to a registered principal and the
\* handler of request r starts in the first free slot (slots are anonymous).
Admit(p, r) ==
    /\ pc[p] = "idle"
    /\ \A q \in Procs : q < p => pc[q] # "idle"
    /\ nops < MaxOps
    /\ r.user \in DOMAIN users

GET_ADMIN_STATS == "get_admin_stats"

\* what get_admin_stats reports of the accounts and the ledger, were it to
\* read the whole store at once
Summary(accs, txs) ==
    [total_accounts |-> Cardinality(DOMAIN accs),
     total_transactions |-> Len(txs),
     total_balance |-> SumBalances(accs, DOMAIN accs)]

\* while a get_admin_stats call is in flight, every step of any handler
\* notes the store it leaves behind
Logged ==
    IF \E q \in Procs : req[q].op = GET_ADMIN_STATS
      THEN seen \cup {Summary(accounts, transactions)}
      ELSE seen

\* The handler raises HTTPException or returns: the response goes out and
\* the slot is free again.
Respond(p, r, status, nb, snapshot) ==
    /\ seen' = Logged
    /\ last' = [req |-> r, result |-> status, new_balance |-> nb, pre |-> snapshot]
    /\ pc' = [pc EXCEPT ![p] = "idle"]
    /\ req' = [req EXCEPT ![p] = NoReq]
    /\ local' = [local EXCEPT ![p] = NoLocal]
    /\ pre' = [pre EXCEPT ![p] = NoPre]

\* The handler is suspended at its next store call.
Suspend(p, r, label, loc, snapshot) ==
    /\ seen' = Logged
    /\ last' = NoLast
    /\ pc' = [pc EXCEPT ![p] = label]
    /\ req' = [req EXCEPT ![p] = r]
    /\ local' = [local EXCEPT ![p] = loc]
    /\ pre' = [pre EXCEPT ![p] = snapshot]

Snapshot == [accounts |-> accounts, ntx |-> Len(transactions)]

\* ---- deposit_money -----------------------------------------------------
DepositFindReq(p, r) ==
    /\ nops' = nops + 1
    /\ IF r.transaction_type # DEPOSIT
         THEN Respond(p, r, InvalidType, 0, Snapshot)
       ELSE IF ~FindOwned(accounts, r.to_account_id, r.user)
         THEN Respond(p, r, AccountNotFound, 0, Snapshot)
       ELSE Suspend(p, r, "deposit_update",
                    [NoLocal EXCEPT !.account_balance = accounts[r.to_account_id].balance],
                    Snapshot)
    /\ UNCHANGED <<users, accounts, transactions, clock, applied>>

DepositFind(p) == \E r \in DepositRequests : Admit(p, r) /\ DepositFindReq(p, r)

DepositUpdate(p) ==
    /\ pc[p] = "deposit_update"
    /\ LET nb == DepositNewBalance(local[p].account_balance, req[p].amount) IN
         /\ accounts' = UpdateBalance(accounts, req[p].to_account_id, nb)
         /\ Suspend(p, req[p], "deposit_insert",
                    [local[p] EXCEPT !.new_balance = nb, !.timestamp = clock + 1],
                    pre[p])
    /\ clock' = clock + 1
    /\ UNCHANGED <<users, transactions, nops, applied>>

DepositInsert(p) ==
    /\ pc[p] = "deposit_insert"
    /\ transactions' = Append(transactions,
            Transaction(NoAccount, req[p].to_account_id, req[p].amount,
                        DEPOSIT, req[p].user, local[p].timestamp))
    /\ applied' = applied \cup
            {Written(local[p].timestamp, req[p].to_account_id, local[p].timestamp)}
    /\ Respond(p, req[p], Ok, local[p].new_balance, pre[p])
    /\ UNCHANGED <<users, accounts, nops, clock>>

\* ---- withdraw_money ----------------------------------------------------
WithdrawFindReq(p, r) ==
    /\ nops' = nops + 1
    /\ IF r.transaction_type # WITHDRAWAL
         THEN Respond(p, r, InvalidType, 0, Snapshot)
       ELSE IF ~FindOwned(accounts, r.to_account_id, r.user)
         THEN Respond(p, r, AccountNotFound, 0, Snapshot)
       ELSE IF Insufficient(accounts[r.to_account_id].balance, r.amount)
         THEN Respond(p, r, InsufficientBalance, 0, Snapshot)
       ELSE Suspend(p, r, "withdrawal_update",
                    [NoLocal EXCEPT !.account_balance = accounts[r.to_account_id].balance],
                    Snapshot)
    /\ UNCHANGED <<users, accounts, transactions, clock, applied>>

WithdrawFind(p) == \E r \in WithdrawRequests : Admit(p, r) /\ WithdrawFindReq(p, r)

WithdrawUpdate(p) ==
    /\ pc[p] = "withdrawal_update"
    /\ LET nb == WithdrawNewBalance(local[p].account_balance, req[p].amount) IN
         /\ accounts' = UpdateBalance(accounts, req[p].to_account_id, nb)
         /\ Suspend(p, req[p], "withdrawal_insert",
                    [local[p] EXCEPT !.new_balance = nb, !.timestamp = clock + 1],
                    pre[p])
    /\ clock' = clock + 1
    /\ UNCHANGED <<users, transactions, nops, applied>>

WithdrawInsert_to(p) ==
    /\ pc[p] = "withdrawal_insert"
    /\ transactions' = Append(transactions,
            Transaction(NoAccount, req[p].to_account_id, req[p].amount,
                        WITHDRAWAL, req[p].user, local[p].timestamp))
    /\ applied' = applied \cup
            {Written(local[p].timestamp, req[p].to_account_id, local[p].timestamp)}
    /\ Respond(p, req[p], Ok, local[p].new_balance, pre[p])
    /\ UNCHANGED <<users, accounts, nops, clock>>

WithdrawInsert(p) ==
    /\ pc[p] = "withdrawal_insert"
    /\ transactions' = Append(transactions,
            Transaction(req[p].to_account_id, NoAccount, req[p].amount,
                        WITHDRAWAL, req[p].user, local[p].timestamp))
    /\ applied' = applied \cup
            {Written(local[p].timestamp, req[p].to_account_id, local[p].timestamp)}
    /\ Respond(p, req[p], Ok, local[p].new_balance, pre[p])
    /\ UNCHANGED <<users, accounts, nops, clock>>

\* ---- transfer_money ----------------------------------------------------
TransferFindFromReq(p, r) ==
    /\ nops' = nops + 1
    /\ IF ~FindOwned(accounts, r.from_account_id, r.user)
         THEN Respond(p, r, FromNotFound, 0, Snapshot)
         ELSE Suspend(p, r, "transfer_find_to",
                      [NoLocal EXCEPT !.from_balance = accounts[r.from_account_id].balance],
                      Snapshot)
    /\ UNCHANGED <<users, accounts, transactions, clock, applied>>

TransferFindFrom(p) == \E r \in TransferRequests : Admit(p, r) /\ TransferFindFromReq(p, r)

TransferFindTo_owned(p) ==
    /\ pc[p] = "transfer_find_to"
    /\ IF ~FindOwned(accounts, req[p].to_account_id, req[p].user)
         THEN Respond(p, req[p], ToNotFound, 0, pre[p])
       ELSE IF Insufficient(local[p].from_balance, req[p].amount)
         THEN Respond(p, req[p], InsufficientBalance, 0, pre[p])
       ELSE Suspend(p, req[p], "transfer_update_from",
                    [local[p] EXCEPT
                       !.to_balance = accounts[req[p].to_account_id].balance,
                       !.new_balance = TransferNewFrom(local[p].from_balance, req[p].amount),
                       !.new_to_balance = TransferNewTo(accounts[req[p].to_account_id].balance,
                                                        req[p].amount)],
                    pre[p])
    /\ UNCHANGED <<users, accounts, transactions, nops, clock, applied>>

TransferFindTo(p) ==
    /\ pc[p] = "transfer_find_to"
    /\ IF ~FindById(accounts, req[p].to_account_id)
         THEN Respond(p, req[p], ToNotFound, 0, pre[p])
       ELSE IF Insufficient(local[p].from_balance, req[p].amount)
         THEN Respond(p, req[p], InsufficientBalance, 0, pre[p])
       ELSE Suspend(p, req[p], "transfer_update_from",
                    [local[p] EXCEPT
                       !.to_balance = accounts[req[p].to_account_id].balance,
                       !.new_balance = TransferNewFrom(local[p].from_balance, req[p].amount),
                       !.new_to_balance = TransferNewTo(accounts[req[p].to_account_id].balance,
                                                        req[p].amount)],
                    pre[p])
    /\ UNCHANGED <<users, accounts, transactions, nops, clock, applied>>

TransferUpdateFrom(p) ==
    /\ pc[p] = "transfer_update_from"
    /\ accounts' = UpdateBalance(accounts, req[p].from_account_id, local[p].new_balance)
    /\ Suspend(p, req[p], "transfer_update_to",
               [local[p] EXCEPT !.from_written = clock + 1], pre[p])
    /\ clock' = clock + 1
    /\ UNCHANGED <<users, transactions, nops, applied>>

TransferUpdateTo_waiting(p) ==
    /\ pc[p] = "transfer_update_to"
    /\ \A q \in Procs \ {p} :
          ~ ( /\ pc[q] = "transfer_update_to"
              /\ req[q].from_account_id = req[p].to_account_id )
    /\ accounts' = UpdateBalance(accounts, req[p].to_account_id, local[p].new_to_balance)
    /\ Suspend(p, req[p], "transfer_insert",
               [local[p] EXCEPT !.timestamp = clock + 1], pre[p])
    /\ clock' = clock + 1
    /\ UNCHANGED <<users, transactions, nops, applied>>

TransferUpdateTo(p) ==
    /\ pc[p] = "transfer_update_to"
    /\ accounts' = UpdateBalance(accounts, req[p].to_account_id, local[p].new_to_balance)
    /\ Suspend(p, req[p], "transfer_insert",
               [local[p] EXCEPT !.timestamp = clock + 1], pre[p])
    /\ clock' = clock + 1
    /\ UNCHANGED <<users, transactions, nops, applied>>

TransferInsert(p) ==
    /\ pc[p] = "transfer_insert"
    /\ transactions' = Append(transactions,
            Transaction(req[p].from_account_id, req[p].to_account_id,
                        req[p].amount, TRANSFER, req[p].user, local[p].timestamp))
    /\ applied' = applied \cup
            {Written(local[p].timestamp, req[p].from_account_id, local[p].from_written),
             Written(local[p].timestamp, req[p].to_account_id, local[p].timestamp)}
    /\ Respond(p, req[p], Ok, local[p].new_balance, pre[p])
    /\ UNCHANGED <<users, accounts, nops, clock>>

\* ---- specification -----------------------------------------------------
Step(p) ==
    \/ DepositFind(p)
    \/ DepositUpdate(p)
    \/ DepositInsert(p)
    \/ WithdrawFind(p)
    \/ WithdrawUpdate(p)
    \/ WithdrawInsert(p)
    \/ TransferFindFrom(p)
    \/ TransferFindTo(p)
    \/ TransferUpdateFrom(p)
    \/ TransferUpdateTo(p)
    \/ TransferInsert(p)

Next == \E p \in Procs : Step(p)

Spec == Init /\ [][Next]_vars

\* no request but that of slot p is in flight
Alone(p) == \A q \in Procs : pc[q] = "idle" \/ q = p

\* The same handlers, one request at a time: a request is admitted only
\* when no other is in flight.
NextSeq == \E p \in Procs : (\A q \in Procs : pc[q] = "idle" \/ q = p) /\ Step(p)

SpecSeq == Init /\ [][NextSeq]_vars

\* ---- delete_user (admin) -------------------------------------------------
DeleteRequests ==
    [op : {"delete_user"}, user : {AdminUser}, user_id : Users \cup {AdminUser},
     from_account_id : {NoAccount}, to_account_id : {NoAccount}, amount : {0},
     transaction_type : {"none"}]

DeleteFindUser(p) ==
    \E r \in DeleteRequests :
        /\ Admit(p, r)
        /\ Role(r.user) = ADMIN
        /\ nops' = nops + 1
        /\ IF r.user_id \notin DOMAIN users
             THEN Respond(p, r, UserNotFound, 0, Snapshot)
           ELSE IF Role(r.user_id) = ADMIN
             THEN Respond(p, r, CannotDeleteAdmin, 0, Snapshot)
           ELSE Suspend(p, r, "delete_accounts", NoLocal, Snapshot)
        /\ UNCHANGED <<users, accounts, transactions, clock, applied>>

DeleteAccounts(p) ==
    /\ pc[p] = "delete_accounts"
    /\ accounts' = DeleteManyAccounts(accounts, req[p].user_id)
    /\ Suspend(p, req[p], "delete_transactions", local[p], pre[p])
    /\ UNCHANGED <<users, transactions, nops, clock, applied>>

DeleteTransactions(p) ==
    /\ pc[p] = "delete_transactions"
    /\ transactions' = DeleteManyTransactions(transactions, req[p].user_id)
    /\ Suspend(p, req[p], "delete_one", local[p], pre[p])
    /\ UNCHANGED <<users, accounts, nops, clock, applied>>

DeleteUser(p) ==
    /\ pc[p] = "delete_one"
    /\ users' = DeleteOneUser(users, req[p].user_id)
    /\ Respond(p, req[p], Ok, 0, pre[p])
    /\ UNCHANGED <<accounts, transactions, nops, clock, applied>>

\* The balance handlers and delete_user, interleaved.  The default admin
\* exists beside the two principals, and each principal has made one
\* deposit, of the largest amount, into its account.
Opening == CHOOSE m \in Amounts : \A n \in Amounts : n <= m

InitD ==
    /\ users = WithAdmin(RegisteredUsers(Users))
    /\ accounts = [a \in Users |-> [Account(a) EXCEPT !.balance = Opening]]
    /\ transactions = << Transaction(NoAccount, 1, Opening, DEPOSIT, 1, 1),
                         Transaction(NoAccount, 2, Opening, DEPOSIT, 2, 2) >>
    /\ seen = {}
    /\ clock = 2
    /\ applied = {Written(1, 1, 1), Written(2, 2, 2)}
    /\ pc = [p \in Procs |-> "idle"]
    /\ req = [p \in Procs |-> NoReq]
    /\ local = [p \in Procs |-> NoLocal]
    /\ pre = [p \in Procs |-> NoPre]
    /\ last = NoLast
    /\ nops = 0

NextD ==
    \E p \in Procs :
        \/ Step(p)
        \/ DeleteFindUser(p)
        \/ DeleteAccounts(p)
        \/ DeleteTransactions(p)
        \/ DeleteUser(p)

SpecD == InitD /\ [][NextD]_vars

\* ---- get_account ----------------------------------------------------------
GET_ACCOUNT == "get_account"

GetAccountRequests ==
    [op : {GET_ACCOUNT}, user : Users, account_id : AccountIds \cup {NoAccount},
     from_account_id : {NoAccount}, to_account_id : {NoAccount}, amount : {0},
     transaction_type : {"none"}]

\* one store call: the response carries the balance the store held then
GetAccount(p) ==
    \E r \in GetAccountRequests :
        /\ Admit(p, r)
        /\ nops' = nops + 1
        /\ IF ~FindOwned(accounts, r.account_id, r.user)
             THEN Respond(p, r, AccountNotFound, 0, Snapshot)
             ELSE Respond(p, r, Ok, accounts[r.account_id].balance, Snapshot)
        /\ UNCHANGED <<users, accounts, transactions, clock, applied>>

\* The balance handlers and get_account, interleaved, from the state in
\* which each principal has made its opening deposit.
NextR == \E p \in Procs : Step(p) \/ GetAccount(p)

SpecR == InitD /\ [][NextR]_vars

\* ---- get_transactions -----------------------------------------------------
GET_TRANSACTIONS == "get_transactions"
HistoryLimit == 100          \* to_list(100)

GetTransactionsRequests ==
    [op : {GET_TRANSACTIONS}, user : Users, from_account_id : {NoAccount},
     to_account_id : {NoAccount}, amount : {0}, transaction_type : {"none"}]

\* db.transactions.find({"user_id": user_id})
FindByUser(txs, user_id) ==
    LET Mine(t) == t.user_id = user_id IN SelectSeq(txs, Mine)

\* .sort("timestamp", -1): latest first, equal timestamps in the order found
RECURSIVE InsertDescending(_, _)
InsertDescending(sorted, t) ==
    IF sorted = <<>> THEN <<t>>
    ELSE IF Head(sorted).timestamp >= t.timestamp
      THEN <<Head(sorted)>> \o InsertDescending(Tail(sorted), t)
    ELSE <<t>> \o sorted

RECURSIVE SortDescending(_, _)
SortDescending(txs, n) ==
    IF n = 0 THEN <<>>
    ELSE InsertDescending(SortDescending(txs, n - 1), txs[n])

\* .to_list(length)
ToList(txs, length) ==
    IF Len(txs) <= length THEN txs ELSE SubSeq(txs, 1, length)

\* A read returns: the response carries the documents read.
Reply(p, r, status, body, snapshot) ==
    /\ seen' = Logged
    /\ last' = [req |-> r, result |-> status, new_balance |-> 0, pre |-> snapshot,
                body |-> body]
    /\ pc' = [pc EXCEPT ![p] = "idle"]
    /\ req' = [req EXCEPT ![p] = NoReq]
    /\ local' = [local EXCEPT ![p] = NoLocal]
    /\ pre' = [pre EXCEPT ![p] = NoPre]

\* one store call: the caller's records, latest first
GetTransactions(p) ==
    \E r \in GetTransactionsRequests :
        /\ Admit(p, r)
        /\ nops' = nops + 1
        /\ LET found == FindByUser(transactions, r.user) IN
             Reply(p, r, Ok,
                   ToList(SortDescending(found, Len(found)), HistoryLimit),
                   Snapshot)
        /\ UNCHANGED <<users, accounts, transactions, clock, applied>>

\* The balance handlers and get_transactions, one request at a time, from
\* the state in which each principal has made its opening deposit.
NextH ==
    \E p \in Procs :
        \/ Alone(p) /\ Step(p)
        \/ Alone(p) /\ GetTransactions(p)

SpecH == InitD /\ [][NextH]_vars

\* ---- get_admin_stats (admin) -----------------------------------------------
SevenDays == 7               \* timedelta(days=7), in steps of the clock
AccountsLimit == 1000        \* to_list(1000)

StatsRequests ==
    [op : {GET_ADMIN_STATS}, user : {1, AdminUser}, from_account_id : {NoAccount},
     to_account_id : {NoAccount}, amount : {0}, transaction_type : {"none"}]

NoStats ==
    [total_users |-> 0, total_accounts |-> 0, total_transactions |-> 0,
     total_balance |-> 0, active_users |-> 0, recent_transactions |-> 0]

\* db.users.count_documents({"is_active": True})
CountActive(us) == Cardinality({u \in DOMAIN us : us[u].is_active})

\* db.transactions.count_documents({"timestamp": {"$gte": since}})
CountSince(txs, since) ==
    Cardinality({i \in DOMAIN txs : txs[i].timestamp >= since})

\* sum(account["balance"] ...) over db.accounts.find({}).to_list(length)
TotalBalance(accs, length) ==
    IF Cardinality(DOMAIN accs) <= length
      THEN SumBalances(accs, DOMAIN accs)
      ELSE SumBalances(accs, CHOOSE S \in SUBSET DOMAIN accs :
                                   Cardinality(S) = length)

\* get_current_admin, then the first count
StatsCountUsers(p) ==
    /\ pc[p] = "stats_pending"
    /\ IF Role(req[p].user) # ADMIN
         THEN Respond(p, req[p], Forbidden, 0, Snapshot)
         ELSE Suspend(p, req[p], "stats_count_accounts",
                      NoLocal @@ [NoStats EXCEPT
                                    !.total_users = Cardinality(DOMAIN users)],
                      Snapshot)
    /\ UNCHANGED <<users, accounts, transactions, nops, clock, applied>>

StatsCountAccounts(p) ==
    /\ pc[p] = "stats_count_accounts"
    /\ Suspend(p, req[p], "stats_count_transactions",
               [local[p] EXCEPT !.total_accounts = Cardinality(DOMAIN accounts)],
               pre[p])
    /\ UNCHANGED <<users, accounts, transactions, nops, clock, applied>>

StatsCountTransactions(p) ==
    /\ pc[p] = "stats_count_transactions"
    /\ Suspend(p, req[p], "stats_count_active",
               [local[p] EXCEPT !.total_transactions = Len(transactions)],
               pre[p])
    /\ UNCHANGED <<users, accounts, transactions, nops, clock, applied>>

StatsCountActive(p) ==
    /\ pc[p] = "stats_count_active"
    /\ Suspend(p, req[p], "stats_count_recent",
               [local[p] EXCEPT !.active_users = CountActive(users)],
               pre[p])
    /\ UNCHANGED <<users, accounts, transactions, nops, clock, applied>>

StatsCountRecent(p) ==
    /\ pc[p] = "stats_count_recent"
    /\ Suspend(p, req[p], "stats_find_accounts",
               [local[p] EXCEPT !.recent_transactions =
                                   CountSince(transactions, clock - SevenDays)],
               pre[p])
    /\ UNCHANGED <<users, accounts, transactions, nops, clock, applied>>

\* the last read, the sum, and the AdminStats returned
StatsFindAccounts(p) ==
    /\ pc[p] = "stats_find_accounts"
    /\ Reply(p, req[p], Ok,
             [total_users |-> local[p].total_users,
              total_accounts |-> local[p].total_accounts,
              total_transactions |-> local[p].total_transactions,
              total_balance |-> TotalBalance(accounts, AccountsLimit),
              active_users |-> local[p].active_users,
              recent_transactions |-> local[p].recent_transactions],
             pre[p])
    /\ UNCHANGED <<users, accounts, transactions, nops, clock, applied>>

\* A get_admin_stats call has been received and its handler has not run
\* yet; the balance handlers run beside it, in the other slots.  Each
\* principal has made its opening deposit.
InitS ==
    \E r \in StatsRequests :
        /\ users = WithAdmin(RegisteredUsers(Users))
        /\ accounts = [a \in Users |-> [Account(a) EXCEPT !.balance = Opening]]
        /\ transactions = << Transaction(NoAccount, 1, Opening, DEPOSIT, 1, 1),
                             Transaction(NoAccount, 2, Opening, DEPOSIT, 2, 2) >>
        /\ seen = {}
        /\ clock = 2
        /\ applied = {Written(1, 1, 1), Written(2, 2, 2)}
        /\ pc = [p \in Procs |-> IF p = 1 THEN "stats_pending" ELSE "idle"]
        /\ req = [p \in Procs |-> IF p = 1 THEN r ELSE NoReq]
        /\ local = [p \in Procs |-> NoLocal]
        /\ pre = [p \in Procs |-> NoPre]
        /\ last = NoLast
        /\ nops = 0

NextS ==
    \E p \in Procs :
        \/ Step(p)
        \/ StatsCountUsers(p)
        \/ StatsCountAccounts(p)
        \/ StatsCountTransactions(p)
        \/ StatsCountActive(p)
        \/ StatsCountRecent(p)
        \/ StatsFindAccounts(p)

SpecS == InitS /\ [][NextS]_vars

\* ---- store failures and crashes --------------------------------------------
\* The store call at which the handler in slot p is suspended raises.  No
\* handler catches anything but HTTPException, so the exception ends the
\* handler there: the writes it has made stay, the rest never run.
StoreFailure(p) ==
    /\ pc[p] # "idle"
    /\ Respond(p, req[p], StoreError, 0, pre[p])
    /\ UNCHANGED <<users, accounts, transactions, nops, clock, applied>>

\* The server process dies while the handler in slot p (and maybe others) is
\* suspended at a store call: every handler in flight is gone, the store
\* keeps what has been written.  last tells which request was cut off.
Crash(p) ==
    /\ pc[p] # "idle"
    /\ seen' = Logged
    /\ last' = [req |-> req[p], result |-> Crashed, new_balance |-> 0, pre |-> pre[p]]
    /\ pc' = [q \in Procs |-> "idle"]
    /\ req' = [q \in Procs |-> NoReq]
    /\ local' = [q \in Procs |-> NoLocal]
    /\ pre' = [q \in Procs |-> NoPre]
    /\ UNCHANGED <<users, accounts, transactions, nops, clock, applied>>

\* The balance handlers one request at a time, any store call after the
\* first of which may fail, and any of which the process may die at.
NextF ==
    \E p \in Procs :
        \/ Alone(p) /\ Step(p)
        \/ Alone(p) /\ StoreFailure(p)
        \/ Alone(p) /\ Crash(p)

SpecF == Init /\ [][NextF]_vars

\* ---- retries ---------------------------------------------------------------
\* The client of the request that has just failed with a store error sends
\* it again.  TransactionCreate and TransferRequest carry no id: the handler
\* runs as for any request and makes its own Transaction id.  The resent
\* request remembers, in first, the store as the first attempt found it.
RetryOf(r, snapshot) == r @@ [first |-> snapshot]

Retry(p) ==
    /\ last.result = StoreError
    /\ Admit(p, last.req)
    /\ LET r == RetryOf(last.req, last.pre) IN
         IF r.op = DEPOSIT THEN DepositFindReq(p, r)
         ELSE IF r.op = WITHDRAWAL THEN WithdrawFindReq(p, r)
         ELSE TransferFindFromReq(p, r)

\* The balance handlers one request at a time, with store failures and
\* retries, from the state in which each principal has made its opening
\* deposit.
NextRetry ==
    \E p \in Procs :
        \/ Alone(p) /\ Step(p)
        \/ Alone(p) /\ StoreFailure(p)
        \/ Alone(p) /\ Retry(p)

SpecRetry == InitD /\ [][NextRetry]_vars

\* ---- inactive accounts -------------------------------------------------------
\* The balance handlers one request at a time, over a store in which each
\* account holds the opening deposit and carries either value of is_active.
\* No handler writes is_active: an account document with is_active false is
\* one the store was given, not one a request produced.
InitI ==
    \E active \in [AccountIds -> BOOLEAN] :
        /\ users = RegisteredUsers(Users)
        /\ accounts = [a \in AccountIds |->
                         [Account(a) EXCEPT !.balance = Opening,
                                            !.is_active = active[a]]]
        /\ transactions = << Transaction(NoAccount, 1, Opening, DEPOSIT, 1, 1),
                             Transaction(NoAccount, 2, Opening, DEPOSIT, 2, 2) >>
        /\ seen = {}
        /\ clock = 2
        /\ applied = {Written(1, 1, 1), Written(2, 2, 2)}
        /\ pc = [p \in Procs |-> "idle"]
        /\ req = [p \in Procs |-> NoReq]
        /\ local = [p \in Procs |-> NoLocal]
        /\ pre = [p \in Procs |-> NoPre]
        /\ last = NoLast
        /\ nops = 0

SpecI == InitI /\ [][NextSeq]_vars

\* ---- register, create_user_admin, update_user --------------------------------
REGISTER == "register"
CREATE_USER == "create_user_admin"
UPDATE_USER == "update_user"

Anonymous == 0               \* register takes no credentials
Emails == {1, 4}             \* the email of principal 1, and one nobody has

RegisterRequests ==
    [op : {REGISTER}, user : {Anonymous}, email : Emails, role : UserRole,
     from_account_id : {NoAccount}, to_account_id : {NoAccount}, amount : {0},
     transaction_type : {"none"}]

CreateUserRequests ==
    [op : {CREATE_USER}, user : {1, AdminUser}, email : Emails, role : UserRole,
     from_account_id : {NoAccount}, to_account_id : {NoAccount}, amount : {0},
     transaction_type : {"none"}]

UpdateUserRequests ==
    [op : {UPDATE_USER}, user : {1, AdminUser}, user_id : {2, 0}, role : UserRole,
     from_account_id : {NoAccount}, to_account_id : {NoAccount}, amount : {0},
     transaction_type : {"none"}]

\* db.users.find_one({"email": email})
FindEmail(us, email) == \E u \in DOMAIN us : us[u].email = email

\* uuid4: an id no user and no account has
FreshId(us, accs) ==
    1 + (CHOOSE m \in DOMAIN us \cup DOMAIN accs \cup {AdminUser} :
            \A n \in DOMAIN us \cup DOMAIN accs \cup {AdminUser} : n <= m)

\* the store with its users, as it was when the call began
SnapshotU == Snapshot @@ [users |-> users]

RegisterFind(p) ==
    \E r \in RegisterRequests :
        /\ pc[p] = "idle"
        /\ \A q \in Procs : q < p => pc[q] # "idle"
        /\ nops < MaxOps
        /\ nops' = nops + 1
        /\ IF FindEmail(users, r.email)
             THEN Respond(p, r, EmailTaken, 0, SnapshotU)
             ELSE Suspend(p, r, "insert_user", NoLocal, SnapshotU)
        /\ UNCHANGED <<users, accounts, transactions, clock, applied>>

CreateUserFind(p) ==
    \E r \in CreateUserRequests :
        /\ Admit(p, r)
        /\ nops' = nops + 1
        /\ IF Role(r.user) # ADMIN
             THEN Respond(p, r, Forbidden, 0, SnapshotU)
           ELSE IF FindEmail(users, r.email)
             THEN Respond(p, r, EmailTaken, 0, SnapshotU)
           ELSE Suspend(p, r, "insert_user", NoLocal, SnapshotU)
        /\ UNCHANGED <<users, accounts, transactions, clock, applied>>

\* the insert_one of the user record, the same code in register and in
\* create_user_admin: the role is the role of the request
InsertUserRecord(p) ==
    /\ pc[p] = "insert_user"
    /\ LET id == FreshId(users, accounts) IN
         /\ users' = InsertUser(users, id, req[p].email, req[p].role)
         /\ IF req[p].role = USER
              THEN Suspend(p, req[p], "insert_account",
                           NoLocal @@ [user_id |-> id], pre[p])
              ELSE Respond(p, req[p], Ok, 0, pre[p])
    /\ UNCHANGED <<accounts, transactions, nops, clock, applied>>

\* the default checking account of a regular user
InsertDefaultAccount(p) ==
    /\ pc[p] = "insert_account"
    /\ accounts' = InsertAccount(accounts, local[p].user_id, local[p].user_id)
    /\ Respond(p, req[p], Ok, 0, pre[p])
    /\ UNCHANGED <<users, transactions, nops, clock, applied>>

UpdateUserFind(p) ==
    \E r \in UpdateUserRequests :
        /\ Admit(p, r)
        /\ nops' = nops + 1
        /\ IF Role(r.user) # ADMIN
             THEN Respond(p, r, Forbidden, 0, SnapshotU)
           ELSE IF r.user_id \notin DOMAIN users
             THEN Respond(p, r, UserNotFound, 0, SnapshotU)
           ELSE Suspend(p, r, "update_user_set", NoLocal, SnapshotU)
        /\ UNCHANGED <<users, accounts, transactions, clock, applied>>

UpdateUserSet(p) ==
    /\ pc[p] = "update_user_set"
    /\ users' = IF req[p].user_id \in DOMAIN users
                  THEN [users EXCEPT ![req[p].user_id].role = req[p].role]
                  ELSE users
    /\ Suspend(p, req[p], "update_user_return", local[p], pre[p])
    /\ UNCHANGED <<accounts, transactions, nops, clock, applied>>

\* the second find_one; User(**None) raises when the user is gone
UpdateUserReturn(p) ==
    /\ pc[p] = "update_user_return"
    /\ Respond(p, req[p],
               IF req[p].user_id \in DOMAIN users THEN Ok ELSE StoreError,
               0, pre[p])
    /\ UNCHANGED <<users, accounts, transactions, nops, clock, applied>>

\* Registration and user administration, interleaved, beside the default
\* admin and the two principals.
NextReg ==
    \E p \in Procs :
        \/ RegisterFind(p)
        \/ CreateUserFind(p)
        \/ InsertUserRecord(p)
        \/ InsertDefaultAccount(p)
        \/ UpdateUserFind(p)
        \/ UpdateUserSet(p)
        \/ UpdateUserReturn(p)

SpecReg == InitD /\ [][NextReg]_vars

\* N withdrawals of one amount a against one account of balance B, and
\* nothing else: every slot holds a withdrawal that has been received but
\* whose handler has not run yet.
Balances == 0..3

WithdrawPending(p) ==
    /\ pc[p] = "withdrawal_pending"
    /\ WithdrawFindReq(p, req[p])

InitW ==
    \E B \in Balances, a \in {m \in Amounts : m > 0} :
        /\ users = RegisteredUsers(Users)
        /\ accounts = [Registered(Users) EXCEPT ![1].balance = B]
        /\ transactions = << Transaction(NoAccount, 1, B, DEPOSIT, 1, 1) >>
        /\ seen = {}
        /\ clock = 1
        /\ applied = {Written(1, 1, 1)}
        /\ pc = [p \in Procs |-> "withdrawal_pending"]
        /\ req = [p \in Procs |->
                    [op |-> WITHDRAWAL, user |-> 1, from_account_id |-> NoAccount,
                     to_account_id |-> 1, amount |-> a,
                     transaction_type |-> WITHDRAWAL]]
        /\ local = [p \in Procs |-> NoLocal]
        /\ pre = [p \in Procs |-> NoPre]
        /\ last = NoLast
        /\ nops = 0

NextW == \E p \in Procs : WithdrawPending(p) \/ WithdrawUpdate(p) \/ WithdrawInsert(p)

SpecW == InitW /\ [][NextW]_vars

\* ---- a set of concurrent balance operations --------------------------------
\* Every slot holds a request that has been received and whose handler has
\* not run yet: each is a transfer 1 -> 2, a transfer 2 -> 1, a deposit or
\* a withdrawal.  Slots are anonymous, so the requests are laid out in the
\* order of Pending.  The event loop runs every handler that is ready, and
\* every store call returns: each slot's steps are weakly fair.
Pending ==
    << [op |-> TRANSFER, user |-> 1, from_account_id |-> 1, to_account_id |-> 2,
        amount |-> Opening, transaction_type |-> TRANSFER],
       [op |-> TRANSFER, user |-> 2, from_account_id |-> 2, to_account_id |-> 1,
        amount |-> 1, transaction_type |-> TRANSFER],
       [op |-> DEPOSIT, user |-> 1, from_account_id |-> NoAccount, to_account_id |-> 1,
        amount |-> 1, transaction_type |-> DEPOSIT],
       [op |-> WITHDRAWAL, user |-> 2, from_account_id |-> NoAccount, to_account_id |-> 2,
        amount |-> Opening, transaction_type |-> WITHDRAWAL] >>

InitT ==
    \E f \in [Procs -> DOMAIN Pending] :
        /\ \A p, q \in Procs : p < q => f[p] <= f[q]
        /\ users = WithAdmin(RegisteredUsers(Users))
        /\ accounts = [a \in Users |-> [Account(a) EXCEPT !.balance = Opening]]
        /\ transactions = << Transaction(NoAccount, 1, Opening, DEPOSIT, 1, 1),
                             Transaction(NoAccount, 2, Opening, DEPOSIT, 2, 2) >>
        /\ seen = {}
        /\ clock = 2
        /\ applied = {Written(1, 1, 1), Written(2, 2, 2)}
        /\ pc = [p \in Procs |-> "pending"]
        /\ req = [p \in Procs |-> Pending[f[p]]]
        /\ local = [p \in Procs |-> NoLocal]
        /\ pre = [p \in Procs |-> NoPre]
        /\ last = NoLast
        /\ nops = 0

Start(p) ==
    /\ pc[p] = "pending"
    /\ IF req[p].op = DEPOSIT THEN DepositFindReq(p, req[p])
       ELSE IF req[p].op = WITHDRAWAL THEN WithdrawFindReq(p, req[p])
       ELSE TransferFindFromReq(p, req[p])

Resume(p) ==
    \/ DepositUpdate(p)
    \/ DepositInsert(p)
    \/ WithdrawUpdate(p)
    \/ WithdrawInsert(p)
    \/ TransferFindTo(p)
    \/ TransferUpdateFrom(p)
    \/ TransferUpdateTo(p)
    \/ TransferInsert(p)

NextT == \E p \in Procs : Start(p) \/ Resume(p)

SpecT ==
    /\ InitT
    /\ [][NextT]_vars
    /\ \A p \in Procs : WF_vars(Start(p) \/ Resume(p))

\* ---- what the claims speak of ------------------------------------------
Quiescent == \A p \in Procs : pc[p] = "idle"

Responded == last.result # NoResult

Balance(a) == accounts[a].balance

BalanceBefore(a) == last.pre.accounts[a].balance

Appended == Len(transactions) - last.pre.ntx

Newest == transactions[Len(transactions)]

\* the request of the latest response named accounts the handler found
WellAddressed ==
    IF last.req.op = TRANSFER
      THEN /\ FindOwned(last.pre.accounts, last.req.from_account_id, last.req.user)
           /\ FindById(last.pre.accounts, last.req.to_account_id)
      ELSE /\ last.req.transaction_type = last.req.op
           /\ FindOwned(last.pre.accounts, last.req.to_account_id, last.req.user)

\* the store is as it was when the call of the latest response began
Untouched ==
    /\ accounts = last.pre.accounts
    /\ Appended = 0

\* ---- serial execution of the handlers -----------------------------------
\* What one handler does to the balances when it runs alone from its first
\* store call to its last; Rejected when it raises instead.
Rejected == [a \in {} |-> 0]

SerialApply(bal, t) ==
    IF bal = Rejected THEN Rejected
    ELSE IF t.transaction_type = DEPOSIT
      THEN [bal EXCEPT ![t.to_account_id] =
                DepositNewBalance(bal[t.to_account_id], t.amount)]
    ELSE IF Insufficient(bal[t.from_account_id], t.amount) THEN Rejected
    ELSE IF t.transaction_type = WITHDRAWAL
      THEN [bal EXCEPT ![t.from_account_id] =
                WithdrawNewBalance(bal[t.from_account_id], t.amount)]
    ELSE LET nf == TransferNewFrom(bal[t.from_account_id], t.amount)
             nt == TransferNewTo(bal[t.to_account_id], t.amount)
         IN  [[bal EXCEPT ![t.from_account_id] = nf] EXCEPT ![t.to_account_id] = nt]

RECURSIVE SerialRun(_, _, _)
SerialRun(bal, ledger, order) ==
    IF order = <<>> THEN bal
    ELSE SerialRun(SerialApply(bal, ledger[Head(order)]), ledger, Tail(order))

Orders(n) == {o \in [1..n -> 1..n] : \A i, j \in 1..n : o[i] = o[j] => i = j}

\* the signed amount a ledger record applies to account a
Signed(t, a) ==
    (IF t.to_account_id = a THEN t.amount ELSE 0)
  - (IF t.from_account_id = a THEN t.amount ELSE 0)

RECURSIVE Replay(_, _, _)
Replay(ledger, a, n) ==
    IF n = 0 THEN 0 ELSE Replay(ledger, a, n - 1) + Signed(ledger[n], a)

\* every record of the ledger moves a positive amount between two
\* different accounts, or into or out of one
PlainLedger ==
    \A i \in 1..Len(transactions) :
        /\ transactions[i].amount > 0
        /\ transactions[i].from_account_id # transactions[i].to_account_id

\* how many records of the ledger equal t
Occurrences(ledger, t) == Cardinality({i \in DOMAIN ledger : ledger[i] = t})

\* some record of the ledger names account a
Referenced(ledger, a) ==
    \E i \in DOMAIN ledger :
        ledger[i].from_account_id = a \/ ledger[i].to_account_id = a

\* the transfer in slot q has written the from-account's new balance and has
\* not yet inserted its record: the store holds some of its effects only
PartialTransfer(q) ==
    /\ pc[q] \in {"transfer_update_to", "transfer_insert"}
    /\ req[q].amount > 0
    /\ req[q].from_account_id # req[q].to_account_id

\* the Transaction record the handler of request r inserts
RecordOf(r, now) ==
    IF r.op = DEPOSIT
      THEN Transaction(NoAccount, r.to_account_id, r.amount, DEPOSIT, r.user, now)
    ELSE IF r.op = WITHDRAWAL
      THEN Transaction(r.to_account_id, NoAccount, r.amount, WITHDRAWAL, r.user, now)
    ELSE Transaction(r.from_account_id, r.to_account_id, r.amount, TRANSFER, r.user,
                     now)

\* the store holds every effect of the request last tells of: its record,
\* and the balances its handler writes when it runs to its end
Complete ==
    /\ Appended = 1
    /\ Newest = RecordOf(last.req, Newest.timestamp)
    /\ [a \in DOMAIN accounts |-> Balance(a)]
         = SerialApply([a \in DOMAIN last.pre.accounts |-> BalanceBefore(a)],
                       RecordOf(last.req, 0))

\* the accounts the request names
Named(r) ==
    IF r.op = TRANSFER THEN {r.from_account_id, r.to_account_id}
    ELSE {r.to_account_id}

\* the sum of the amounts of the first n records of the ledger of type ty
RECURSIVE SumOfType(_, _, _)
SumOfType(ledger, ty, n) ==
    IF n = 0 THEN 0
    ELSE SumOfType(ledger, ty, n - 1)
           + (IF ledger[n].transaction_type = ty THEN ledger[n].amount ELSE 0)

\* failures the ledger design names and no handler raises
InvalidTransfer == "InvalidTransfer"

InvalidAmount == "InvalidAmount"

\* ---- claims ------------------------------------------------------------

\* C1: in every reachable state every account's stored balance is >= 0.
C1_BalanceNonNegative == \A a \in DOMAIN accounts : Balance(a) >= 0

\* C2: operations sharing an account are serialized: when no operation is in
\* flight, the stored balances are those produced by running the successful
\* operations (the ledger's records) one after another in some order.
\* Stated for ledgers of positive amounts between distinct accounts, so that
\* a violation is a lost update and nothing else.
C2_Serializable ==
    (Quiescent /\ PlainLedger) =>
        \E o \in Orders(Len(transactions)) :
            SerialRun([a \in DOMAIN accounts |-> DefaultBalance], transactions, o)
              = [a \in DOMAIN accounts |-> Balance(a)]

\* C3: when no operation is in flight, replaying from zero the Transaction
\* records that reference an account gives the account's stored balance.
\* Stated for ledgers of positive amounts between distinct accounts.
C3_ReplayEqualsBalance ==
    (Quiescent /\ PlainLedger) =>
        \A a \in DOMAIN accounts :
            Replay(transactions, a, Len(transactions)) = Balance(a)

\* C4: of N concurrent withdrawals of amount a against a balance B exactly
\* floor(B/a) succeed, and the others fail with insufficient funds.
C4_ExactlyFloorSucceed ==
    /\ Responded => last.result \in {Ok, InsufficientBalance}
    /\ Quiescent =>
         Cardinality({i \in 1..Len(transactions) :
                         transactions[i].transaction_type = WITHDRAWAL})
           = transactions[1].amount \div last.req.amount

\* C5: a withdrawal whose amount exceeds the balance of the account fails
\* with "Insufficient balance" (400), changes no balance and appends no
\* Transaction record.
C5_WithdrawInsufficient ==
    ( /\ last.req.op = WITHDRAWAL
      /\ WellAddressed
      /\ last.req.amount > BalanceBefore(last.req.to_account_id) )
    => /\ last.result = InsufficientBalance
       /\ Untouched

C5_Witness ==
    /\ last.req.op = WITHDRAWAL
    /\ WellAddressed
    /\ BalanceBefore(last.req.to_account_id) > 0
    /\ last.req.amount > BalanceBefore(last.req.to_account_id)
    /\ last.result = InsufficientBalance

\* C6: a transfer whose amount exceeds the balance of the from-account
\* fails with "Insufficient balance", changes neither the from- nor the
\* to-account's balance and appends no Transaction record.
C6_TransferInsufficient ==
    ( /\ last.req.op = TRANSFER
      /\ WellAddressed
      /\ last.req.amount > BalanceBefore(last.req.from_account_id) )
    => /\ last.result = InsufficientBalance
       /\ Untouched

C6_Witness ==
    /\ last.req.op = TRANSFER
    /\ WellAddressed
    /\ last.req.from_account_id # last.req.to_account_id
    /\ BalanceBefore(last.req.from_account_id) > 0
    /\ last.req.amount > BalanceBefore(last.req.from_account_id)
    /\ last.result = InsufficientBalance

\* C7: a transfer with from_account_id = to_account_id fails with
\* InvalidTransfer, leaves the balance unchanged and appends no record.
C7_SelfTransferRejected ==
    ( /\ last.req.op = TRANSFER
      /\ WellAddressed
      /\ last.req.from_account_id = last.req.to_account_id
      /\ last.req.amount > 0
      /\ last.req.amount <= BalanceBefore(last.req.from_account_id) )
    => /\ last.result = InvalidTransfer
       /\ Untouched

\* C8: a deposit, withdrawal or transfer whose amount is zero or negative
\* fails with InvalidAmount, changes no balance and appends no record; so
\* every Transaction record has amount > 0.
C8_NonPositiveAmountRejected ==
    /\ (Responded /\ WellAddressed /\ last.req.amount <= 0)
         => (last.result = InvalidAmount /\ Untouched)
    /\ \A i \in 1..Len(transactions) : transactions[i].amount > 0

\* C9: a successful transfer of m between two distinct accounts, nothing
\* interleaved, takes exactly m off the from-account, adds exactly m to the
\* to-account and appends exactly one record, of type transfer, with both
\* account ids set.
C9_TransferEffect ==
    ( /\ last.req.op = TRANSFER
      /\ last.result = Ok
      /\ last.req.from_account_id # last.req.to_account_id )
    => /\ Balance(last.req.from_account_id)
            = BalanceBefore(last.req.from_account_id) - last.req.amount
       /\ Balance(last.req.to_account_id)
            = BalanceBefore(last.req.to_account_id) + last.req.amount
       /\ Appended = 1
       /\ Newest.transaction_type = TRANSFER
       /\ Newest.from_account_id = last.req.from_account_id
       /\ Newest.to_account_id = last.req.to_account_id
       /\ Newest.amount = last.req.amount

C9_Witness ==
    /\ last.req.op = TRANSFER
    /\ last.result = Ok
    /\ last.req.from_account_id # last.req.to_account_id
    /\ last.req.amount > 0
    /\ Balance(last.req.from_account_id) > 0

\* C10: a successful deposit of m on a balance b, nothing interleaved,
\* stores b + m, returns new_balance = b + m and appends exactly one record,
\* of type deposit, with to_account_id the account and no from_account_id.
C10_DepositEffect ==
    (last.req.op = DEPOSIT /\ last.result = Ok)
    => /\ Balance(last.req.to_account_id)
            = BalanceBefore(last.req.to_account_id) + last.req.amount
       /\ last.new_balance
            = BalanceBefore(last.req.to_account_id) + last.req.amount
       /\ Appended = 1
       /\ Newest.transaction_type = DEPOSIT
       /\ Newest.to_account_id = last.req.to_account_id
       /\ Newest.from_account_id = NoAccount
       /\ Newest.amount = last.req.amount

C10_Witness ==
    /\ last.req.op = DEPOSIT
    /\ last.result = Ok
    /\ last.req.amount > 0
    /\ BalanceBefore(last.req.to_account_id) > 0

\* C11: a successful withdrawal of m on a balance b >= m, nothing
\* interleaved, stores b - m, returns new_balance = b - m and appends exactly
\* one record, of type withdrawal, with from_account_id the account and no
\* to_account_id.
C11_WithdrawEffect ==
    (last.req.op = WITHDRAWAL /\ last.result = Ok)
    => /\ Balance(last.req.to_account_id)
            = BalanceBefore(last.req.to_account_id) - last.req.amount
       /\ last.new_balance
            = BalanceBefore(last.req.to_account_id) - last.req.amount
       /\ Appended = 1
       /\ Newest.transaction_type = WITHDRAWAL
       /\ Newest.from_account_id = last.req.to_account_id
       /\ Newest.to_account_id = NoAccount
       /\ Newest.amount = last.req.amount

C11_Witness ==
    /\ last.req.op = WITHDRAWAL
    /\ last.result = Ok
    /\ last.req.amount > 0
    /\ BalanceBefore(last.req.to_account_id) >= last.req.amount

\* C12: a deposit or withdrawal (a request of its own transaction type) that
\* names an account which does not exist, or which the calling principal
\* does not own, fails with "Account not found" (404), changes no balance
\* and appends no Transaction record.
C12_AccountNotFound ==
    ( /\ last.req.op \in {DEPOSIT, WITHDRAWAL}
      /\ last.req.transaction_type = last.req.op
      /\ \/ last.req.to_account_id \notin DOMAIN last.pre.accounts
         \/ last.pre.accounts[last.req.to_account_id].user_id # last.req.user )
    => /\ last.result = AccountNotFound
       /\ Untouched

C12_Witness ==
    /\ last.req.op \in {DEPOSIT, WITHDRAWAL}
    /\ last.req.transaction_type = last.req.op
    /\ last.req.to_account_id \in DOMAIN last.pre.accounts
    /\ last.pre.accounts[last.req.to_account_id].user_id # last.req.user
    /\ last.pre.accounts[last.req.to_account_id].balance > 0
    /\ last.req.amount > 0
    /\ last.result = AccountNotFound

\* C13: a transfer needs the from-account to be the caller's own and the
\* to-account only to exist: a from_account_id that is not an account of
\* the caller, or a to_account_id that is no account, fails with 404
\* "... account not found", no balance changed and no record appended; a
\* transfer within the from-balance to another principal's account succeeds.
C13_TransferAccounts ==
    LET from == last.req.from_account_id
        to == last.req.to_account_id
        before == last.pre.accounts
        FromIsOwn == from \in DOMAIN before /\ before[from].user_id = last.req.user
    IN  last.req.op = TRANSFER =>
          /\ ~FromIsOwn => (last.result = FromNotFound /\ Untouched)
          /\ (FromIsOwn /\ to \notin DOMAIN before)
                => (last.result = ToNotFound /\ Untouched)
          /\ ( /\ FromIsOwn
               /\ to \in DOMAIN before
               /\ before[to].user_id # last.req.user
               /\ last.req.amount <= before[from].balance )
                => last.result = Ok

C13_Witness ==
    /\ last.req.op = TRANSFER
    /\ last.result = Ok
    /\ last.req.amount > 0
    /\ last.req.to_account_id \in DOMAIN last.pre.accounts
    /\ last.pre.accounts[last.req.to_account_id].user_id # last.req.user
    /\ Balance(last.req.to_account_id)
         = BalanceBefore(last.req.to_account_id) + last.req.amount

\* C14: the ledger is append-only: no step, of any user or admin operation,
\* removes or changes a Transaction record that has been inserted.
C14_AppendOnly ==
    [][\A i \in DOMAIN transactions :
          Occurrences(transactions', transactions[i])
            >= Occurrences(transactions, transactions[i])]_vars

\* C15: no step removes from the store an account that at least one
\* Transaction record names; delete_user in particular does not.
C15_ReferencedAccountKept ==
    [][\A a \in DOMAIN accounts :
          Referenced(transactions, a) => a \in DOMAIN accounts']_vars

\* C16: referential integrity: every from_account_id and to_account_id set
\* on a stored Transaction record is the id of an account in the store.
\* Stated for the states in which no request is in flight, so that a
\* violation is not a delete_user caught between its two delete_many calls.
C16_ReferentialIntegrity ==
    Quiescent =>
        \A i \in DOMAIN transactions :
            /\ transactions[i].from_account_id # NoAccount
                  => transactions[i].from_account_id \in DOMAIN accounts
            /\ transactions[i].to_account_id # NoAccount
                  => transactions[i].to_account_id \in DOMAIN accounts

\* C17: a transfer is atomic to observers: a get_account that reads an
\* account of a transfer in flight never reads the store while it holds
\* some but not all of the transfer's three effects.
C17_TransferAtomic ==
    (last.req.op = GET_ACCOUNT /\ last.result = Ok) =>
        \A q \in Procs :
            ~ ( /\ PartialTransfer(q)
                /\ last.req.account_id
                     \in {req[q].from_account_id, req[q].to_account_id} )

\* C18: when a store call of a deposit, withdrawal or transfer fails, or the
\* process dies at one, the store holds either every effect of the
\* operation (each balance update and the Transaction record) or none.
\* Stated for requests of a positive amount.
C18_AllOrNothing ==
    (last.result \in {StoreError, Crashed} /\ last.req.amount > 0)
        => (Untouched \/ Complete)

\* C19: retry idempotence: when a deposit, withdrawal or transfer is sent
\* again after a store failure, the balance of each account it touches
\* differs from the balance the first attempt found by at most one delta.
\* Stated for positive amounts between distinct accounts.
C19_RetryAtMostOnce ==
    ( /\ "first" \in DOMAIN last.req
      /\ last.result = Ok
      /\ last.req.amount > 0
      /\ last.req.from_account_id # last.req.to_account_id )
    => LET Was(a) == last.req.first.accounts[a].balance
           Delta(a) == Signed(RecordOf(last.req, 0), a)
       IN  \A a \in DOMAIN accounts :
               Balance(a) \in {Was(a), Was(a) + Delta(a)}

\* C20: deadlock freedom: of any set of concurrent balance operations, the
\* transfers 1 -> 2 and 2 -> 1 among them, under fair scheduling every one
\* completes with a response, and in no reachable state is an operation in
\* flight unable to take its next step.
C20_AllComplete ==
    /\ \A p \in Procs : (pc[p] # "idle") ~> (pc[p] = "idle")
    /\ [](\A p \in Procs : pc[p] # "idle" => ENABLED (Start(p) \/ Resume(p)))
    /\ [](Responded => last.result \in {Ok, InsufficientBalance, InvalidType,
                                        AccountNotFound, FromNotFound, ToNotFound})

C20_Witness ==
    /\ Quiescent
    /\ last.result = Ok
    /\ \E i, j \in DOMAIN transactions :
          /\ transactions[i].transaction_type = TRANSFER
          /\ transactions[j].transaction_type = TRANSFER
          /\ transactions[i].from_account_id = transactions[j].to_account_id
          /\ transactions[i].to_account_id = transactions[j].from_account_id
          /\ transactions[i].from_account_id # transactions[i].to_account_id

\* C23: no balance operation of a principal lowers the stored balance of an
\* account the principal does not own: with nothing interleaved, every
\* account of another principal holds after the call at least what it held
\* before it.
C23_OthersNotLowered ==
    (Responded /\ last.req.op \in TransactionType) =>
        \A a \in DOMAIN last.pre.accounts :
            last.pre.accounts[a].user_id # last.req.user
                => (a \in DOMAIN accounts /\ Balance(a) >= BalanceBefore(a))

\* C24: conservation of money: when no operation is in flight, the sum of
\* all balances is the sum of the amounts of the deposit records minus the
\* sum of the amounts of the withdrawal records (transfers change nothing).
\* Stated for ledgers of positive amounts.
C24_Conservation ==
    (Quiescent /\ \A i \in DOMAIN transactions : transactions[i].amount > 0) =>
        SumBalances(accounts, DOMAIN accounts)
          = SumOfType(transactions, DEPOSIT, Len(transactions))
              - SumOfType(transactions, WITHDRAWAL, Len(transactions))

\* C25: frame of the balance operations: a step of a handler changes no
\* user record, adds and removes no account, changes no field of an
\* account but the balance, changes the balance only of an account its
\* request names, and leaves every stored Transaction record as it is.
C25_Frame ==
    [][ /\ users' = users
        /\ DOMAIN accounts' = DOMAIN accounts
        /\ \A a \in DOMAIN accounts :
              /\ [accounts'[a] EXCEPT !.balance = accounts[a].balance] = accounts[a]
              /\ accounts'[a] # accounts[a]
                    => \E p \in Procs : pc[p] # "idle" /\ a \in Named(req[p])
        /\ SubSeq(transactions', 1, Len(transactions)) = transactions ]_vars

C25_Witness ==
    /\ last.req.op = TRANSFER
    /\ last.result = Ok
    /\ last.req.amount > 0
    /\ last.req.from_account_id # last.req.to_account_id
    /\ Len(transactions) = 2
    /\ Balance(last.req.to_account_id) # BalanceBefore(last.req.to_account_id)

C28_FromToByType ==
    \A i \in DOMAIN transactions :
        /\ transactions[i].from_account_id # NoAccount
              <=> transactions[i].transaction_type \in {WITHDRAWAL, TRANSFER}
        /\ transactions[i].to_account_id # NoAccount
              <=> transactions[i].transaction_type \in {DEPOSIT, TRANSFER}

C28_Witness ==
    /\ Len(transactions) = 2
    /\ transactions[1].transaction_type = DEPOSIT
    /\ transactions[2].transaction_type = WITHDRAWAL
    /\ transactions[2].amount > 0

\* C29: email uniqueness: a register or create_user_admin call for an email
\* that is registered when the call begins fails with 400 and creates no
\* user and no account; and no two user records carry the same email, also
\* after concurrent registrations of one email.
C29_EmailUnique ==
    /\ ( /\ last.req.op \in {REGISTER, CREATE_USER}
         /\ last.result # Forbidden
         /\ FindEmail(last.pre.users, last.req.email) )
       => /\ last.result = EmailTaken
          /\ users = last.pre.users
          /\ accounts = last.pre.accounts
    /\ \A u, v \in DOMAIN users : users[u].email = users[v].email => u = v

\* C30: a user of role admin comes into being only at startup or by a step
\* of create_user_admin or update_user called by a user who is an admin; no
\* call without admin credentials, register among them, makes one.
C30_AdminOnlyByAdmin ==
    [][ (\E u \in DOMAIN users' :
            /\ users'[u].role = ADMIN
            /\ u \in DOMAIN users => users[u].role # ADMIN)
        => \E p \in Procs :
              /\ pc[p] \in {"insert_user", "update_user_set"}
              /\ pc'[p] # pc[p]
              /\ req[p].op \in {CREATE_USER, UPDATE_USER}
              /\ req[p].user \in DOMAIN users
              /\ Role(req[p].user) = ADMIN ]_vars

\* C27: for any two Transaction records that touch one account, the record
\* whose balance write on that account happened later never has the earlier
\* timestamp.  Stated for ledgers of positive amounts between distinct
\* accounts.
C27_TimestampsFollowWrites ==
    PlainLedger =>
        \A x, y \in applied :
            (x.account = y.account /\ x.at > y.at) => x.timestamp >= y.timestamp

\* C21: the history read returns every Transaction record that references an
\* account of the caller as from_account_id or to_account_id, transfers
\* received from other principals included, and the list it returns is
\* ordered by timestamp descending.  Stated for ledgers of positive amounts
\* between distinct accounts.
C21_HistoryComplete ==
    (last.req.op = GET_TRANSACTIONS /\ last.result = Ok /\ PlainLedger) =>
        /\ \A i \in DOMAIN transactions :
              \A a \in DOMAIN accounts :
                 ( /\ accounts[a].user_id = last.req.user
                   /\ a \in {transactions[i].from_account_id,
                              transactions[i].to_account_id} )
                 => \E j \in DOMAIN last.body : last.body[j] = transactions[i]
        /\ \A j, k \in DOMAIN last.body :
              j < k => last.body[j].timestamp >= last.body[k].timestamp

\* C26: get_admin_stats reports the values of one state of the store: some
\* state the store was in during the call has the reported number of
\* accounts, the reported number of Transaction records and the reported
\* sum of balances, whatever deposits, withdrawals and transfers run beside
\* the call.  Stated for ledgers of positive amounts between distinct
\* accounts.
C26_StatsOneSnapshot ==
    (last.req.op = GET_ADMIN_STATS /\ last.result = Ok /\ PlainLedger) =>
        \E S \in seen :
            /\ last.body.total_accounts = S.total_accounts
            /\ last.body.total_transactions = S.total_transactions
            /\ last.body.total_balance = S.total_balance
====
